---- MODULE Spec2Model ----
(***************************************************************************)
(* The download-and-deliver pipeline of the relay bot:                      *)
(*   bot.py      handle_message            (validation, caller of the       *)
(*                                          pipeline, history, final edit)  *)
(*   premium.py  download_file_from_premium_to (broker call, streaming     *)
(*                                          with hashing and progress,      *)
(*                                          finalize, thumbnail, delivery)  *)
(*   db.py       add_file_info, update_file_thumbnail,                      *)
(*               add_user_downloaded_file                                   *)
(*                                                                         *)
(* Updates are handled one at a time: run_bot (bot.py:569) builds the      *)
(* Application without concurrent_updates and every handler is blocking,   *)
(* so a handle_message runs to its end before the next update is taken.    *)
(*                                                                         *)
(* handle_message passes processing_message as an eighth argument          *)
(* (bot.py:413-415) which download_file_from_premium_to (premium.py:92)    *)
(* does not declare; the model binds the seven declared parameters, and    *)
(* the pipeline sends and edits its own status message (premium.py:109).   *)
(*                                                                         *)
(* After a successful transfer handle_message creates the thumbnail task    *)
(* (bot.py:451), which runs on the same event loop and interleaves with    *)
(* the handling of later updates at its awaits.                            *)
(*                                                                         *)
(* The environment: the broker's answer, the bytes of the body, the        *)
(* outcome of each edit of the status message in the chunk loop, of        *)
(* send_document and get_file, of the file operations and of the thumbnail *)
(* subprocess are chosen freely.  The database is connected and its        *)
(* operations succeed, and reply_text and the caller's final edit_text     *)
(* succeed.                                                                *)
(*                                                                         *)
(* Beside the pipeline, the module holds the account commands of bot.py    *)
(* (/start, /register, /me, /unregister, /stop) over the users collection  *)
(* (SpecCommands) and the web application of main.py: its authentication   *)
(* middleware and its routes, with the globals bot_thread and bot_app      *)
(* (SpecWeb).                                                              *)
(***************************************************************************)
EXTENDS Integers, Sequences, FiniteSets, TLC

\* ---------------------------------------------------------------- bounds
MaxTransfers == 2
MaxChunks == 2
MaxRejects == 1
MaxFrames == 16
MaxThreads == 2

\* ------------------------------------------------------ program constants
Threshold == 52428800
chunk_size == 4096
\* the HTTP client's limit of redirects for session.get (premium.py:114),
\* which the call leaves at its default
MaxRedirects == 10
DefaultFrames == 12

Transfers == 1..MaxTransfers
Users == {1, 2}
\* byte values of the explicitly modelled part of a file; VideoMagic is the
\* header byte that libmagic reads as a video container
Bytes == {1, 2}
VideoMagic == 2

\* ------------------------------------------------------------ file bytes
\* A byte string is [pre, body]: pre filler bytes (value 0) followed by the
\* bytes of body.  The filler stands for the bulk of a large file.
EmptyBytes == [pre |-> 0, body |-> <<>>]

Size(c) == c.pre + Len(c.body)

\* n further bytes of value byte at the end of c (temp_file.write)
Write(c, byte, n) ==
  IF byte = 0
    THEN [c EXCEPT !.pre = @ + n]
    ELSE [c EXCEPT !.body = @ \o [i \in 1..n |-> byte]]

\* hashlib.sha256: update() absorbs the chunk, hexdigest() names the bytes
\* absorbed so far; two byte strings have the same digest iff they are equal
\* (collisions are out of scope)
Sha256UpdateOmitted(h, byte, n) == h

Sha256Update(h, byte, n) == Write(h, byte, n)

HexDigest(h) == <<"sha256", h.pre, h.body>>

Sha256(c) == HexDigest(c)

\* python-magic on the file header, premium.py:190-193 (the hash-named path
\* never ends in .mp4/.avi/.mov/.mkv, so only the MIME type decides)
IsVideo(c) == c.pre = 0 /\ c.body # <<>> /\ c.body[1] = VideoMagic

\* ------------------------------------------------------------- progress
\* premium.py:156 computes int((downloaded_size / total_size) * 100) in
\* double precision.  For the sizes that occur here the result is the exact
\* floor of downloaded*100/total except at these three arguments, where the
\* product falls just below the integer (0.29 * 100 = 28.999999999999996).
RoundsDown == {<<15204352, 52428800>>, <<29884416, 52428800>>,
               <<30408704, 52428800>>}

\* floor(d * 100 / T) in two decimal steps (no intermediate above 2^31)
FloorPercent(d, T) ==
  LET q1 == (10 * d) \div T
      r1 == (10 * d) % T
  IN  10 * q1 + (10 * r1) \div T

Progress(d, T) ==
  IF T > 0
    THEN IF <<d, T>> \in RoundsDown THEN FloorPercent(d, T) - 1
                                    ELSE FloorPercent(d, T)
    ELSE 0

\* premium.py:157 and :174, the two branches that edit the status message
ReportsPercent(p, last) == p >= last + 5 /\ p < 100

ReportsCompleteFromNinety(p) == p >= 90

ReportsComplete(p) == p = 100

\* premium.py:210
SendsInline(total_size, actual) == total_size < Threshold

\* ------------------------------------------------------ broker responses
\* A response body is a sequence of segments [byte, len, n]: n consecutive
\* chunks of iter_chunked(4096), each of len bytes of value byte.
SmallChunks == {[byte |-> 1, len |-> 0, n |-> 1],
                [byte |-> 1, len |-> 1, n |-> 1],
                [byte |-> 2, len |-> 1, n |-> 1]}

SeqsUpTo(S, k) == UNION {[1..m -> S] : m \in 0..k}

SmallBodies == SeqsUpTo(SmallChunks, MaxChunks)

\* 50 MiB - 1 and 50 MiB of filler, in full chunks and a last short one
BigBodies ==
  { << [byte |-> 0, len |-> chunk_size, n |-> Threshold \div chunk_size - 1],
       [byte |-> 0, len |-> chunk_size - 1, n |-> 1] >>,
    << [byte |-> 0, len |-> chunk_size, n |-> Threshold \div chunk_size] >> }

Bodies == SmallBodies \cup BigBodies

RECURSIVE BodySize(_)
BodySize(b) ==
  IF b = <<>> THEN 0 ELSE Head(b).len * Head(b).n + BodySize(Tail(b))

\* Content-Length is absent (read as 0, premium.py:125) or the body's length:
\* the client ends a body that is shorter than its Content-Length with an
\* error, which is StreamError below

Locations == {"https://mirror.example/x"}
StatusCodes == {404, 500, 503}
ApiCodes == {400, 401, 402, 403, 404, 429, 500, 418, 200}

\* ---------------------------------------------------------------- state
VARIABLES
  env,      \* configuration read from the environment (IMAGES_DIR,
            \* FILE_HOST_BASE_URL)
  load,     \* the run's workload: how many updates arrive and whether the
            \* broker serves large bodies
  pc,       \* where each handle_message invocation stands
  tr,       \* the locals of each invocation
  temp,     \* <download_dir>/<user>/tempfile, per user, when it exists
  files,    \* <download_dir>/<user>/<hash>: the finalized files
  thumbs,   \* <images_dir>/<user>/<hash>.jpg that exist
  db,       \* the files collection, in insertion order
  history,  \* downloaded_files of each user's record
  tasks,    \* the thumbnail task each invocation has created
            \* (asyncio.create_task, bot.py:451): where it stands and
            \* what it sent to the requester
  out,      \* what each invocation sent to its requester, in order
  mon,      \* per invocation: the status edits issued from the chunk loop
  users,    \* the users collection: each user's document
  chat,     \* per user: the last two commands sent and the answer to the
            \* last one
  bot_thread,  \* main.py:29, the global bot_thread
  bot_app,     \* main.py:28, the global bot_app
  threads,  \* how many bot threads are alive
  http      \* the last request to the web application and its answer

\* the state of the commands and of the web application
service == <<users, chat, bot_thread, bot_app, threads, http>>

\* the state of the pipeline
pipeline ==
  <<env, load, pc, tr, temp, files, thumbs, db, history, tasks, out, mon>>

vars == <<pipeline, service>>

NoHash == <<"none", 0, <<>>>>
\* the configured secrets: the bot token (premium.py:235), the broker's API
\* key and account id (bot.py:413-415, premium.py:115-116)
Secrets == {"TELEGRAM_BOT_TOKEN", "API_KEY", "USER_ID"}

\* a URL: its host (kind), the segments of its path, the hash of the file it
\* was composed for, and the secrets its text holds
NoUrl == [kind |-> "none", path |-> <<>>, hash |-> NoHash, secrets |-> {}]
NoResult == [ok |-> FALSE, file_hash |-> NoHash, file_url |-> NoUrl]

\* an HTTP exchange with the file-serving endpoint: the path requested,
\* the status and the body of the answer
NoFetch == [path |-> <<>>, status |-> 0, body |-> EmptyBytes]

NoTile == <<0, 0>>

\* the sender's document in the users collection, as the middleware reads it
\* exists: there is a document; deleted: its "deleted" field ("absent" in a
\* document that /start upserted, bot.py:163); started: its "started"
\* field; details: it holds first_name, last_name, username (bot.py:194-202)
NoAccount ==
  [exists |-> FALSE, deleted |-> "absent", started |-> FALSE,
   details |-> FALSE]

Member ==
  [exists |-> TRUE, deleted |-> "no", started |-> TRUE, details |-> TRUE]

\* the document that /start upserts for a user who has none (bot.py:163)
Upserted ==
  [exists |-> TRUE, deleted |-> "absent", started |-> TRUE,
   details |-> FALSE]

NoChat == [before |-> "none", last |-> "none", reply |-> "none"]

\* a request to the web application and its answer: the segments of the
\* path, the Authorization header (its scheme, whether its parameter
\* decodes to <username>:<password>, the two), whether the bot thread was
\* alive when it came, the status and the message of the answer, and
\* whether the body of a route handler ran; n alternates from one request
\* to the next
NoRequest ==
  [n |-> 0, path |-> <<>>, scheme |-> "none", wellformed |-> FALSE,
   username |-> "", password |-> "", alive |-> FALSE, status |-> 0,
   handled |-> FALSE, detail |-> "none"]

Locals0 ==
  [user |-> 1, account |-> Member, file_name |-> <<>>, tile |-> NoTile, fetched |-> NoFetch, text |-> <<>>, hops |-> 0, location |-> "", body |-> <<>>, total_size |-> 0,
   downloaded_size |-> 0, last_progress_update |-> 0,
   file_hash |-> EmptyBytes, file_hash_str |-> NoHash,
   thumb |-> "none", mode |-> "none",
   requests |-> 0, sends |-> 0,
   result |-> NoResult, outcome |-> "none"]

NoTask == [at |-> "none", file_hash |-> NoHash, user_id |-> 0,
           sent |-> "none"]

Mon0 == [issued |-> 0, prev |-> -1, cur |-> -1, rejected |-> 0,
         complete |-> 0, late |-> FALSE, skipped |-> 0]

\* a message to the requester: op is reply, edit (of a status message) or
\* document; tag names the text, and n, s, h are what the text carries
Msg(op, tag, n, s, h) == [op |-> op, tag |-> tag, n |-> n, s |-> s, h |-> h]

Reply(tag) == Msg("reply", tag, 0, "", NoHash)

Send(t, m) == out' = [out EXCEPT ![t] = Append(@, m)]

Start ==
  /\ env \in [images_dir : BOOLEAN, file_host_base_url : BOOLEAN]
  /\ pc = [t \in Transfers |-> "idle"]
  /\ tr = [t \in Transfers |-> Locals0]
  /\ temp = <<>>
  /\ files = <<>>
  /\ thumbs = {}
  /\ db = <<>>
  /\ history = [u \in Users |-> {}]
  /\ tasks = [t \in Transfers |-> NoTask]
  /\ out = [t \in Transfers |-> <<>>]
  /\ mon = [t \in Transfers |-> Mon0]
  /\ users = [u \in Users |-> NoAccount]
  /\ chat = [u \in Users |-> NoChat]
  /\ bot_thread = "none"
  /\ bot_app = "none"
  /\ threads = 0
  /\ http = NoRequest

\* one update, answered with any body
\* what a run opens: bodies of any size, names in the response headers,
\* senders whose account does not pass the middleware
Load(updates, large, headers, guests, num_frames) ==
  [updates |-> updates, large |-> large, headers |-> headers,
   guests |-> guests, num_frames |-> num_frames]

\* one update: answered with any body, or with a named small body, or sent
\* from any account
Init ==
  /\ Start
  /\ load \in {Load(1, TRUE, FALSE, FALSE, DefaultFrames),
               Load(1, FALSE, TRUE, FALSE, DefaultFrames),
               Load(1, FALSE, FALSE, TRUE, DefaultFrames)}

\* a sequence of updates, answered with small bodies
InitSeq ==
  Start /\ load = Load(MaxTransfers, FALSE, FALSE, FALSE, DefaultFrames)

\* one update, answered with a small body, the contact sheet made of any
\* number of frames
InitSheet ==
  /\ Start
  /\ load \in {Load(1, FALSE, FALSE, FALSE, n) : n \in 1..MaxFrames}

Served == IF load.large THEN Bodies ELSE SmallBodies

\* -------------------------------------------------------------- validation
\* A message text is the sequence of its pieces.  The pattern of bot.py:408
\* is https?://(www\.)?rapidgator\.net, applied with re.match: anchored at
\* the start of the text, open at its end, case-sensitive.
Link == <<"https://", "rapidgator", ".", "net", "/file/abc">>

Texts ==
  { Link,
    <<"http://", "www.", "rapidgator", ".", "net", "/file/abc">>,
    <<"https://", "rapidgator", ".", "net", ".example.org/x">>,
    <<"see ", "https://", "rapidgator", ".", "net", "/file/abc">>,
    <<"https://", "www.", "www.", "rapidgator", ".", "net">>,
    <<"https://", "rapidgator", "-", "net", "/file/abc">>,
    <<"HTTPS://", "rapidgator", ".", "net", "/file/abc">>,
    <<"ftp://", "rapidgator", ".", "net", "/file/abc">>,
    <<"https://", "rapidgator", ".">>,
    <<"hello">> }

Sent == IF load.large THEN Texts ELSE {Link, <<"hello">>}

StartsWith(text, prefix) ==
  /\ Len(text) >= Len(prefix)
  /\ SubSeq(text, 1, Len(prefix)) = prefix

RECURSIVE SearchesPattern(_)
MatchesPattern(text) ==
  \E scheme \in {"http://", "https://"} :
    \/ StartsWith(text, <<scheme, "rapidgator", ".", "net">>)
    \/ StartsWith(text, <<scheme, "www.", "rapidgator", ".", "net">>)

\* re.search in place of re.match
SearchesPattern(text) ==
  text # <<>> /\ (MatchesPattern(text) \/ SearchesPattern(Tail(text)))

IsRapidgatorUrl(text) == MatchesPattern(text)

\* the function f with x mapped to v, x added to its domain if absent
Put(f, x, v) == [y \in DOMAIN f \cup {x} |-> IF y = x THEN v ELSE f[y]]

Drop(f, x) == [y \in DOMAIN f \ {x} |-> f[y]]

\* a pipeline that calls the broker again after a failed call
ReturnOrRetry(t, outcome, result) ==
  IF outcome = "transport"
    THEN /\ pc' = [pc EXCEPT ![t] = "requesting"]
         /\ tr' = [tr EXCEPT ![t].outcome = outcome, ![t].requests = @ + 1]
    ELSE /\ pc' = [pc EXCEPT ![t] = "returned"]
         /\ tr' = [tr EXCEPT ![t].outcome = outcome, ![t].result = result,
                             ![t].hops = 0]

\* the pipeline returns to handle_message (every `return` of premium.py)
Return(t, outcome, result) ==
  /\ pc' = [pc EXCEPT ![t] = "returned"]
  /\ tr' = [tr EXCEPT ![t].outcome = outcome, ![t].result = result,
                      ![t].hops = 0]

\* except Exception of premium.py:266-270
DownloadError(t, outcome) ==
  /\ Send(t, Reply("downloadError"))
  /\ Return(t, outcome, NoResult)

\* ------------------------------------------------ handle_message, part 1
\* bot.py:569: the Application is built without concurrent_updates and
\* handle_message is registered as a blocking handler (bot.py:588), so an
\* update is taken only when the handling of the one before has ended
DispatchableConcurrently(t) == TRUE

Dispatchable(t) == \A s \in Transfers : s < t => pc[s] = "done"

\* the locals, messages and edit history of an invocation that has ended
\* are gone when the next update is taken
Ended(s) == pc[s] \in {"idle", "done"}

\* ----------------------------------------------------------- middleware
Accounts ==
  IF load.guests
    THEN {NoAccount, Upserted} \cup
         {[exists |-> TRUE, deleted |-> d, started |-> s, details |-> TRUE] :
            d \in {"no", "yes"}, s \in BOOLEAN}
    ELSE {Member}

\* bot.py:332-357, for a text that is no command
check_user_started(account) == account.exists /\ account.started

\* bot.py:305-330: find_one({"user_id": user_id, "deleted": False})
check_registration(account) == account.exists /\ account.deleted = "no"

\* bot.py:584-585: the handlers of groups -2 and -1 reply and return a
\* value; they do not raise ApplicationHandlerStop, and the dispatcher goes
\* on to the handler of group 1 (bot.py:588) whatever they returned
Middleware(account) ==
  (IF check_user_started(account) THEN <<>> ELSE <<Reply("notStarted")>>)
  \o (IF check_registration(account) THEN <<>>
                                      ELSE <<Reply("notRegistered")>>)

\* bot.py:388-415 and premium.py:109: one update at a time, in order
HandleMessage(t) ==
  /\ pc[t] = "idle"
  /\ t <= load.updates
  /\ Dispatchable(t)
  /\ \E u \in Users, text \in Sent, account \in Accounts :
       LET valid == IsRapidgatorUrl(text) IN
       /\ u <= t  \* users are alike: the first update is user 1's
       /\ tr' = [s \in Transfers |->
                  IF s = t THEN [Locals0 EXCEPT
                                   !.user = u,
                                   !.account = account,
                                   !.text = text,
                                   \* session.get, premium.py:114
                                   !.requests = IF valid THEN 1 ELSE 0,
                                   !.outcome = IF valid THEN "none"
                                                        ELSE "rejected"]
                  ELSE IF Ended(s) THEN Locals0 ELSE tr[s]]
       /\ out' = [s \in Transfers |->
                   IF s # t THEN (IF Ended(s) THEN <<>> ELSE out[s])
                   ELSE Middleware(account) \o
                        (IF valid THEN <<Reply("processing"),
                                         Reply("processing")>>
                                  ELSE <<Reply("invalidUrl")>>)]
       /\ pc' = [pc EXCEPT ![t] = IF valid THEN "requesting" ELSE "done"]
  /\ mon' = [s \in Transfers |-> IF s = t \/ Ended(s) THEN Mon0 ELSE mon[s]]
  /\ UNCHANGED <<service, env, load, temp, files, thumbs, db, history, tasks>>

\* ------------------------------------------------------- the broker call
\* premium.py:280-289: the dict and its .get with the f-string default.  A
\* text is the sequence of its pieces, so that the default carries the code.
\* The code is the JSON integer of the body's "code" field.
error_messages_all_unknown(code) == <<"Unknown error (code ", code, ")">>

error_messages(code) ==
  CASE code = 400 -> <<"Invalid parameters">>
    [] code = 401 -> <<"Invalid API authentication">>
    [] code = 402 -> <<"Filehost is not supported">>
    [] code = 403 -> <<"Not enough traffic">>
    [] code = 404 -> <<"File not found">>
    [] code = 429 -> <<"Too many open connections">>
    [] code = 500 ->
         <<"Currently no available premium account for this filehost">>
    [] OTHER -> <<"Unknown error (code ", code, ")">>

\* session.get (premium.py:114) is called without allow_redirects, so the
\* client itself follows a 3xx answer that carries a Location, up to its
\* limit of redirects, and hands the pipeline the answer of the last hop
FollowRedirect(t) ==
  /\ pc[t] = "requesting"
  /\ tr[t].hops + 1 < MaxRedirects
  /\ \E loc \in Locations :
       tr' = [tr EXCEPT ![t].hops = @ + 1, ![t].location = loc]
  /\ UNCHANGED <<service, env, load, pc, temp, files, thumbs, db, history, tasks, out, mon>>

\* except Exception of premium.py:310-314: the connection fails, the client
\* gives up on the redirects, or response.json() raises something that is
\* not a ContentTypeError (a body that is not JSON under a JSON content type)
CallFails(t) ==
  /\ pc[t] = "requesting"
  /\ \E cause \in {"connection", "redirects", "json"} :
       /\ cause = "redirects" => tr[t].hops + 1 >= MaxRedirects
       /\ Send(t, Reply("callError"))
       /\ Return(t, "transport", NoResult)
  /\ UNCHANGED <<service, env, load, temp, files, thumbs, db, history, tasks, mon>>

\* premium.py:299-303: status 302 reaches the pipeline only without a
\* Location (headers.get gives None)
Redirected(t) ==
  /\ pc[t] = "requesting"
  /\ Send(t, Msg("reply", "redirected", 0, "None", NoHash))
  /\ Return(t, "redirected", NoResult)
  /\ UNCHANGED <<service, env, load, temp, files, thumbs, db, history, tasks, mon>>

\* premium.py:304-308
OtherStatus(t) ==
  /\ pc[t] = "requesting"
  /\ \E code \in StatusCodes :
       /\ Send(t, Msg("reply", "statusError", code, "", NoHash))
       /\ Return(t, "apiError", NoResult)
  /\ UNCHANGED <<service, env, load, temp, files, thumbs, db, history, tasks, mon>>

\* premium.py:271-297: status 200, Content-Type not application/octet-stream
JsonAnswer(t) ==
  /\ pc[t] = "requesting"
  /\ \/ \E code \in ApiCodes :
          /\ Send(t, Msg("reply", "apiError", code, error_messages(code), NoHash))
          /\ Return(t, "apiError", NoResult)
     \/ \* a JSON body without "code": the function ends without a reply
        /\ out' = out
        /\ Return(t, "apiError", NoResult)
     \/ \* aiohttp.ContentTypeError
        /\ Send(t, Reply("invalidResponse"))
        /\ Return(t, "apiError", NoResult)
  /\ UNCHANGED <<service, env, load, temp, files, thumbs, db, history, tasks, mon>>

\* premium.py:120-150: status 200 with application/octet-stream
\* ------------------------------------------------- the original filename
\* A name is the sequence of its code points.  The Content-Disposition
\* header either carries a filename*=UTF-8''<value> parameter or does not
\* (absent, or a plain filename= parameter): premium.py:132-133.
NoDisposition == [star |-> FALSE, value |-> <<>>]

HeaderNames == { <<99, 195, 169>>, <<99, 233>>, <<26085>> }

ContentDispositions ==
  IF load.headers
    THEN {NoDisposition} \cup {[star |-> TRUE, value |-> n] : n \in HeaderNames}
    ELSE {NoDisposition}

\* os.path.basename of the link (premium.py:138): what follows its last "/"
basename(url) ==
  LET last == url[Len(url)]
  IN  CASE last = "/file/abc" -> <<97, 98, 99>>
        [] last = ".example.org/x" -> <<120>>
        [] OTHER -> <<>>

\* premium.py:133-138
DerivedName(cd, url) == IF cd.star THEN cd.value ELSE basename(url)

\* str.encode('latin1') raises UnicodeEncodeError above U+00FF
Latin1Encodable(name) == \A i \in 1..Len(name) : name[i] <= 255

Continuation(b) == b \in 128..191

Utf8Length(b) ==
  IF b < 128 THEN 1
  ELSE IF b \in 194..223 THEN 2
  ELSE IF b \in 224..239 THEN 3
  ELSE IF b \in 240..244 THEN 4
  ELSE 0

\* bytes.decode('utf-8'): ok is FALSE where it raises UnicodeDecodeError
RECURSIVE decode_utf8(_)
decode_utf8(bytes) ==
  IF bytes = <<>> THEN [ok |-> TRUE, chars |-> <<>>]
  ELSE
    LET b == bytes[1]
        n == Utf8Length(b)
        wellFormed ==
          /\ n > 0
          /\ Len(bytes) >= n
          /\ \A i \in 2..n : Continuation(bytes[i])
          /\ b = 224 => bytes[2] >= 160
          /\ b = 237 => bytes[2] <= 159
          /\ b = 240 => bytes[2] >= 144
          /\ b = 244 => bytes[2] <= 143
    IN  IF ~wellFormed THEN [ok |-> FALSE, chars |-> <<>>]
        ELSE
          LET rest == decode_utf8(SubSeq(bytes, n + 1, Len(bytes)))
              cp == CASE n = 1 -> b
                      [] n = 2 -> (b - 192) * 64 + (bytes[2] - 128)
                      [] n = 3 -> (b - 224) * 4096 + (bytes[2] - 128) * 64
                                    + (bytes[3] - 128)
                      [] n = 4 -> (b - 240) * 262144
                                    + (bytes[2] - 128) * 4096
                                    + (bytes[3] - 128) * 64
                                    + (bytes[4] - 128)
          IN  [ok |-> rest.ok,
               chars |-> IF rest.ok THEN <<cp>> \o rest.chars ELSE <<>>]

\* premium.py:141-144: only UnicodeEncodeError is caught
Redecoded(name) ==
  IF Latin1Encodable(name) THEN decode_utf8(name)
  ELSE [ok |-> TRUE, chars |-> name]

\* premium.py:120-148
ReceiveStream(t) ==
  /\ pc[t] = "requesting"
  /\ \E b \in Served, cl \in {0, 1}, opened \in BOOLEAN,
        cd \in ContentDispositions :
       LET file_name == Redecoded(DerivedName(cd, tr[t].text)) IN
       IF ~file_name.ok
         THEN \* UnicodeDecodeError reaches except Exception (266-270)
              /\ DownloadError(t, "nameFailed")
              /\ temp' = temp
       ELSE IF opened
         THEN /\ tr' = [tr EXCEPT ![t].hops = 0,
                                  ![t].file_name = file_name.chars,
                                  ![t].body = b,
                                  ![t].total_size = cl * BodySize(b),
                                  ![t].downloaded_size = 0,
                                  ![t].file_hash = EmptyBytes]
              /\ temp' = Put(temp, tr[t].user, EmptyBytes)
              /\ pc' = [pc EXCEPT ![t] = "streaming"]
              /\ out' = out
         ELSE \* the user directory or the temporary file cannot be created
              /\ DownloadError(t, "storageFailed")
              /\ temp' = temp
  /\ UNCHANGED <<service, env, load, files, thumbs, db, history, tasks, mon>>

\* ------------------------------------------------------- the chunk loop
Rejections == {"NotModified", "NotEditable", "BadRequest", "Other"}

\* does the loop body edit the status message at this progress
Fires(p, last) == ReportsPercent(p, last) \/ ReportsComplete(p)

\* The chunks of one segment are alike, and the loop body does nothing but
\* write, hash and count until the progress reaches a reporting branch; the
\* step takes the chunks of the head segment up to and including the first
\* one that reports (progress never decreases along a segment).
\* BytesFor(q, T) is the least d with d * 100 >= q * T.
BytesFor(q, T) == q * (T \div 100) + (q * (T % 100) + 99) \div 100

NextReport(last) == IF last + 5 < 100 THEN last + 5 ELSE 100

FirstReporting(d, T, last, len) ==
  LET need == BytesFor(NextReport(last), T) - d
      j0 == (need + len - 1) \div len
      j1 == IF j0 < 1 THEN 1 ELSE j0
  IN  IF Fires(Progress(d + j1 * len, T), last) THEN j1 ELSE j1 + 1

ChunksTaken(t, seg) ==
  IF tr[t].total_size = 0 \/ seg.n = 1 THEN seg.n
  ELSE LET j == FirstReporting(tr[t].downloaded_size, tr[t].total_size,
                               tr[t].last_progress_update, seg.len)
       IN  IF j < seg.n THEN j ELSE seg.n

Rest(body, k) ==
  IF Head(body).n = k THEN Tail(body)
                      ELSE <<[Head(body) EXCEPT !.n = @ - k]>> \o Tail(body)

\* `if chunk:` of premium.py:152 is false for a chunk of no bytes
SkipsNothing(seg) == FALSE

Skips(seg) == seg.len = 0

\* premium.py:151-179
ReadChunks(t) ==
  /\ pc[t] = "streaming"
  /\ tr[t].body # <<>>
  /\ LET seg == Head(tr[t].body)
         u == tr[t].user
     IN
     IF Skips(seg)
       THEN /\ tr' = [tr EXCEPT ![t].body = Tail(@)]
            /\ mon' = [mon EXCEPT ![t].skipped = @ + 1]
            /\ UNCHANGED <<pc, temp, out>>
       ELSE
         LET k == ChunksTaken(t, seg)
             d == tr[t].downloaded_size + k * seg.len
             progress == Progress(d, tr[t].total_size)
             loc == [tr[t] EXCEPT
                       !.body = Rest(@, k),
                       !.downloaded_size = d,
                       !.file_hash = Sha256Update(@, seg.byte, k * seg.len)]
         IN
         /\ temp' = [temp EXCEPT ![u] = Write(@, seg.byte, k * seg.len)]
         /\ IF ReportsPercent(progress, tr[t].last_progress_update)
              THEN \E r \in {"ok"} \cup Rejections :
                     /\ r # "ok" => mon[t].rejected < MaxRejects
                     /\ mon' = [mon EXCEPT
                          ![t].issued = @ + 1,
                          ![t].prev = mon[t].cur,
                          ![t].cur = progress,
                          ![t].late = @ \/ mon[t].complete > 0,
                          ![t].rejected = IF r = "ok" THEN @ ELSE @ + 1]
                     /\ tr' = [tr EXCEPT ![t] =
                          IF r = "ok"
                            THEN [loc EXCEPT !.last_progress_update = progress]
                            ELSE loc]
                     /\ UNCHANGED <<pc, out>>
              ELSE IF ReportsComplete(progress)
                THEN \E r \in {"ok"} \cup Rejections :
                       /\ mon' = [mon EXCEPT
                            ![t].complete = @ + 1,
                            ![t].rejected = IF r = "ok" THEN @ ELSE @ + 1]
                       /\ IF r = "ok"
                            THEN /\ tr' = [tr EXCEPT ![t] = loc]
                                 /\ UNCHANGED <<pc, out>>
                            ELSE \* not inside a try of its own: premium.py:266
                                 /\ Send(t, Reply("downloadError"))
                                 /\ pc' = [pc EXCEPT ![t] = "returned"]
                                 /\ tr' = [tr EXCEPT ![t] =
                                      [loc EXCEPT !.outcome = "editFailed",
                                                  !.result = NoResult]]
                ELSE /\ tr' = [tr EXCEPT ![t] = loc]
                     /\ UNCHANGED <<pc, out, mon>>
  /\ UNCHANGED <<service, env, load, files, thumbs, db, history, tasks>>

\* a write to the temporary file fails or the connection breaks while the
\* body is read: premium.py:266-270
StreamError(t) ==
  /\ pc[t] = "streaming"
  /\ DownloadError(t, "streamFailed")
  /\ UNCHANGED <<service, env, load, temp, files, thumbs, db, history, tasks, mon>>

\* ------------------------------------------------------------ persistence
\* db.py:61-79 (insert_one; the collection has no unique index)
add_file_info(d, file_hash, file_path, original_filename) ==
  Append(d, [file_hash |-> file_hash, file_path |-> file_path,
             original_filename |-> original_filename,
             thumbnail_path |-> <<>>])

Matching(d, file_hash) == {i \in DOMAIN d : d[i].file_hash = file_hash}

First(S) == CHOOSE i \in S : \A j \in S : i <= j

\* a replace_one in place of the $set: the document is replaced whole
update_file_thumbnail_replacing(d, file_hash, thumbnail_path) ==
  IF Matching(d, file_hash) = {} THEN d
  ELSE [d EXCEPT ![First(Matching(d, file_hash))] =
          [file_hash |-> file_hash, file_path |-> <<>>,
           original_filename |-> <<>>, thumbnail_path |-> <<thumbnail_path>>]]

\* db.py:137-154 (update_one: the first matching document)
update_file_thumbnail(d, file_hash, thumbnail_path) ==
  IF Matching(d, file_hash) = {} THEN d
  ELSE [d EXCEPT ![First(Matching(d, file_hash))].thumbnail_path =
                    <<thumbnail_path>>]

\* db.py:100-114 ($addToSet)
add_user_downloaded_file(h, user_id, file_hash) ==
  [h EXCEPT ![user_id] = @ \cup {file_hash}]

\* ------------------------------------------------------------- finalizing
\* the `async for` of premium.py:151 ends without an exception when the
\* body has been read to its end
StreamEndedOrBroken(t) == TRUE

StreamEnded(t) == tr[t].body = <<>>

\* premium.py:181-187
Finalize(t) ==
  /\ pc[t] = "streaming"
  /\ StreamEnded(t)
  /\ LET u == tr[t].user
         file_hash_str == HexDigest(tr[t].file_hash)
         final_file_path == <<u, file_hash_str>>
     IN
     \E renamed \in BOOLEAN :
       IF renamed
         THEN /\ files' = Put(files, final_file_path, temp[u])
              /\ temp' = Drop(temp, u)
              /\ db' = add_file_info(db, file_hash_str, final_file_path,
                                     tr[t].file_name)
              /\ tr' = [tr EXCEPT ![t].file_hash_str = file_hash_str]
              /\ pc' = [pc EXCEPT ![t] = "thumbnail"]
              /\ out' = out
         ELSE /\ DownloadError(t, "storageFailed")
              /\ UNCHANGED <<temp, files, db>>
  /\ UNCHANGED <<service, env, load, thumbs, history, tasks, mon>>

\* math.ceil(a / b) of premium.py:57,60, for positive integers within the
\* range where the float quotient is exact
FloorDiv(a, b) == a \div b

Ceil(a, b) == (a + b - 1) \div b

\* premium.py:52-60: the tile layout, <<cols, rows>>
TileLayout(num_frames) ==
  IF num_frames <= 4 THEN <<num_frames, 1>>
  ELSE IF num_frames <= 9 THEN <<3, Ceil(num_frames, 3)>>
  ELSE <<4, Ceil(num_frames, 4)>>

\* premium.py:189-207, with create_video_thumbnail_sheet (premium.py:39-90),
\* which catches ffmpeg.Error itself and returns
Thumbnail(t) ==
  /\ pc[t] = "thumbnail"
  /\ LET u == tr[t].user
         h == tr[t].file_hash_str
         thumbnail_path == <<u, h>>
     IN
     IF IsVideo(files[<<u, h>>]) /\ env.images_dir
       THEN \E how \in {"ok", "ffmpegError", "raises", "mkdirFails"} :
              /\ thumbs' = IF how = "ok" THEN thumbs \cup {thumbnail_path}
                                         ELSE thumbs
              /\ db' = IF how \in {"ok", "ffmpegError"}
                         THEN update_file_thumbnail(db, h, thumbnail_path)
                         ELSE db
              /\ IF how = "mkdirFails"
                   THEN /\ Send(t, Reply("downloadError"))
                        /\ pc' = [pc EXCEPT ![t] = "returned"]
                        /\ tr' = [tr EXCEPT ![t].thumb = how,
                                            ![t].outcome = "storageFailed"]
                   ELSE /\ pc' = [pc EXCEPT ![t] = "delivering"]
                        /\ tr' = [tr EXCEPT
                                    ![t].thumb = how,
                                    ![t].tile =
                                      IF how = "ok"
                                        THEN TileLayout(load.num_frames)
                                        ELSE NoTile]
                        /\ out' = out
       ELSE /\ pc' = [pc EXCEPT ![t] = "delivering"]
            /\ UNCHANGED <<tr, out, thumbs, db>>
  /\ UNCHANGED <<service, env, load, temp, files, history, tasks, mon>>

\* -------------------------------------------------------------- delivering
\* a URL is its host (kind) and the segments of its path; hash names the
\* file it was composed for
\* premium.py:235: https://api.telegram.org/file/bot<token>/<file_path>
TelegramUrl(h) ==
  [kind |-> "telegram", path |-> <<"file", "bot<TELEGRAM_BOT_TOKEN>", h>>,
   hash |-> h, secrets |-> {"TELEGRAM_BOT_TOKEN"}]

\* premium.py:251: <FILE_HOST_BASE_URL>/download/<file_hash_str>
HostedUrl(h) ==
  [kind |-> "hosted", path |-> <<"download", h>>, hash |-> h, secrets |-> {}]

\* the URL that the text of a message holds (premium.py:238, 252;
\* bot.py:448)
UrlIn(m) ==
  CASE m.s = "telegram" -> TelegramUrl(m.h)
    [] m.s = "hosted" -> HostedUrl(m.h)
    [] OTHER -> NoUrl

\* the pipeline returns from its delivery branch (mode: inline or link);
\* the inline branch has called send_document once (premium.py:214)
Delivered(t, mode, outcome, result) ==
  /\ pc' = [pc EXCEPT ![t] = "returned"]
  /\ tr' = [tr EXCEPT ![t].mode = mode, ![t].outcome = outcome,
                      ![t].result = result,
                      ![t].sends = IF mode = "inline" THEN @ + 1 ELSE @]

\* premium.py:223-226: what the requester is sent when send_document times
\* out
TimedOutRepliesWithLink(h) ==
  <<Reply("timeout"), Msg("reply", "available", 0, "hosted", h)>>

TimedOutReplies(h) == <<Reply("timeout")>>

Result(t, url) ==
  [ok |-> TRUE, file_hash |-> tr[t].file_hash_str, file_url |-> url]

\* premium.py:209-264
Deliver(t) ==
  /\ pc[t] = "delivering"
  /\ LET h == tr[t].file_hash_str
         actual == Size(files[<<tr[t].user, h>>])
     IN
     IF SendsInline(tr[t].total_size, actual)
       THEN \E sent \in {"ok", "TimedOut", "error"}, got \in BOOLEAN :
              CASE sent = "ok" /\ got ->
                     /\ out' = [out EXCEPT ![t] = @ \o
                          << Msg("document", "file", actual, "", h),
                             Msg("reply", "available", 0, "telegram", h) >>]
                     /\ Delivered(t, "inline", "completed",
                                  Result(t, TelegramUrl(h)))
                [] sent = "ok" /\ ~got ->
                     \* get_file raises after the document went out
                     /\ out' = [out EXCEPT ![t] = @ \o
                          << Msg("document", "file", actual, "", h),
                             Reply("downloadError") >>]
                     /\ Delivered(t, "inline", "sendFailed", NoResult)
                [] sent = "TimedOut" /\ ~got ->
                     /\ out' = [out EXCEPT ![t] = @ \o TimedOutReplies(h)]
                     /\ Delivered(t, "inline", "timedOut", NoResult)
                [] sent = "error" /\ ~got ->
                     /\ Send(t, Reply("downloadError"))
                     /\ Delivered(t, "inline", "sendFailed", NoResult)
                [] OTHER -> FALSE
       ELSE IF env.file_host_base_url
              THEN /\ Send(t, Msg("reply", "available", 0, "hosted", h))
                   /\ Delivered(t, "link", "completed", Result(t, HostedUrl(h)))
              ELSE /\ Send(t, Reply("noBaseUrl"))
                   /\ Delivered(t, "link", "noBaseUrl", NoResult)
  /\ UNCHANGED <<service, env, load, temp, files, thumbs, db, history, tasks, mon>>

\* ------------------------------------------------ handle_message, part 2
\* a handler that waits without end for the answer to its last edit
HandleResultNeverEnds(t) == pc[t] = "returned" /\ UNCHANGED vars

\* bot.py:417-469
HandleResult(t) ==
  /\ pc[t] = "returned"
  /\ IF tr[t].result.ok
       THEN /\ history' = add_user_downloaded_file(history, tr[t].user,
                                                    tr[t].result.file_hash)
            /\ Send(t, Msg("edit", "downloaded", 0, tr[t].result.file_url.kind,
                           tr[t].result.file_hash))
            /\ tasks' = [tasks EXCEPT ![t] =
                 [at |-> "spawned", file_hash |-> tr[t].result.file_hash,
                  user_id |-> tr[t].user, sent |-> "none"]]
       ELSE /\ Send(t, Msg("edit", "failed", 0, "", NoHash))
            /\ UNCHANGED <<history, tasks>>
  /\ pc' = [pc EXCEPT ![t] = "done"]
  /\ UNCHANGED <<service, env, load, tr, temp, files, thumbs, db, mon>>

\* ------------------------------------------- the file-serving endpoint
\* main.py:175-183: GET /download/{user_id}/{file_name}; a path of another
\* shape matches no route and is answered 404 by the framework.  The
\* middleware lets every path under /download/ through without
\* authentication (main.py:73-74).
TempName == <<"tempfile", 0, <<>>>>

download_file(path, stored) ==
  IF Len(path) = 3 /\ path[1] = "download"
       /\ <<path[2], path[3]>> \in DOMAIN stored
    THEN [path |-> path, status |-> 200, body |-> stored[<<path[2], path[3]>>]]
    ELSE [path |-> path, status |-> 404, body |-> EmptyBytes]

\* the requester of a completed transfer asks the file host for the file:
\* by the address <base>/download/<hash> that the link branch composes, or
\* by the address of the endpoint's own shape
FollowLink(t) ==
  /\ pc[t] = "done"
  /\ tr[t].result.ok
  /\ tr[t].fetched = NoFetch
  /\ \E path \in {HostedUrl(tr[t].file_hash_str).path,
                   <<"download", tr[t].user, tr[t].file_hash_str>>,
                   <<"download", tr[t].user, TempName>>} :
       tr' = [tr EXCEPT ![t].fetched = download_file(path, files)]
  /\ UNCHANGED <<service, env, load, pc, temp, files, thumbs, db, history, tasks, out, mon>>

\* ------------------------------------------------- the thumbnail task
\* db.py:81-98 (find_one: the first matching document)
get_file_info_by_hash(d, file_hash) == d[First(Matching(d, file_hash))]

\* The generator that bot.py:10 imports from premium.py and awaits at
\* bot.py:488 is not among the sources; it is taken from the
\* specification's section 4.5: it writes the contact sheet of a video, and
\* a failure (of the subprocess, or a file without a duration) is logged
\* and leaves no thumbnail, without raising.
create_video_thumbnail_sheet_async(video) ==
  IF IsVideo(video) THEN {"made", "failed"} ELSE {"failed"}

\* bot.py:474-488, up to the await of the generator; the record is there,
\* since the pipeline added it before it returned
ThumbnailTaskStart(t) ==
  /\ tasks[t].at = "spawned"
  /\ \E made_dir \in BOOLEAN :
       IF env.images_dir /\ made_dir
         THEN tasks' = [tasks EXCEPT ![t].at = "generating"]
         ELSE \* Path(None) or mkdir raises: except Exception, bot.py:496-498
              tasks' = [tasks EXCEPT ![t].at = "ended", ![t].sent = "error"]
  /\ UNCHANGED <<service, env, load, pc, tr, temp, files, thumbs, db, history, out, mon>>

\* bot.py:488-498, from the generator's end
ThumbnailTaskFinish(t) ==
  /\ tasks[t].at = "generating"
  /\ LET h == tasks[t].file_hash
         u == tasks[t].user_id
         file_info == get_file_info_by_hash(db, h)
         thumbnail_path == <<u, h>>
     IN
     \E r \in create_video_thumbnail_sheet_async(files[file_info.file_path]),
        photo_sent \in BOOLEAN :
       /\ thumbs' = IF r = "made" THEN thumbs \cup {thumbnail_path} ELSE thumbs
       /\ db' = update_file_thumbnail(db, h, thumbnail_path)
       /\ tasks' = [tasks EXCEPT
                      ![t].at = "ended",
                      \* open() of a missing file, or reply_photo, raises
                      ![t].sent = IF thumbnail_path \in thumbs' /\ photo_sent
                                    THEN "photo" ELSE "error"]
  /\ UNCHANGED <<service, env, load, pc, tr, temp, files, history, out, mon>>

\* ------------------------------------------------------------- commands
\* bot.py:151-171: update_one(..., {"$set": {"started": True}}, upsert=True)
start_command(account) ==
  [account |-> IF account.exists THEN [account EXCEPT !.started = TRUE]
                                 ELSE Upserted,
   reply |-> "welcome"]

\* bot.py:173-228; "raised" is the KeyError of existing_user['first_name']
\* (bot.py:190), which comes after the update and answers nothing
register_command(account) ==
  IF account.exists /\ account.deleted = "yes"
    THEN [account |-> [account EXCEPT !.deleted = "no"],
          reply |-> IF account.details THEN "welcomeBack" ELSE "raised"]
  ELSE IF account.exists
    THEN [account |-> account, reply |-> "alreadyRegistered"]
  ELSE [account |-> Member, reply |-> "registered"]

\* bot.py:230-261; "raised" is the KeyError of user_data['first_name']
\* (bot.py:251)
me_command(account) ==
  [account |-> account,
   reply |-> IF ~account.exists THEN "notRegisteredYet"
             ELSE IF account.deleted = "yes" THEN "notRegistered"
             ELSE IF account.details THEN "details"
             ELSE "raised"]

\* bot.py:263-282: modified_count is 0 when no document matched or the
\* field was true already
unregister_command(account) ==
  IF account.exists /\ account.deleted # "yes"
    THEN [account |-> [account EXCEPT !.deleted = "yes"],
          reply |-> "unregistered"]
    ELSE [account |-> account, reply |-> "notRegisteredYet"]

\* bot.py:284-303: update_one without upsert
stop_command(account) ==
  [account |-> IF account.exists THEN [account EXCEPT !.started = FALSE]
                                 ELSE account,
   reply |-> "stopped"]

\* a text that is no command, as the middleware answers it
text_message(account) ==
  [account |-> account,
   reply |-> IF Middleware(account) = <<>> THEN "accepted" ELSE "refused"]

\* the last two commands of a user and the answer to the last one
Said(c, cmd, reply) == [before |-> c.last, last |-> cmd, reply |-> reply]

StartCommand(u) ==
  /\ users' = [users EXCEPT ![u] = start_command(@).account]
  /\ chat' = [chat EXCEPT ![u] = Said(@, "start", start_command(users[u]).reply)]
  /\ UNCHANGED <<pipeline, bot_thread, bot_app, threads, http>>

RegisterCommand(u) ==
  /\ users' = [users EXCEPT ![u] = register_command(@).account]
  /\ chat' = [chat EXCEPT ![u] = Said(@, "register", register_command(users[u]).reply)]
  /\ UNCHANGED <<pipeline, bot_thread, bot_app, threads, http>>

MeCommand(u) ==
  /\ users' = [users EXCEPT ![u] = me_command(@).account]
  /\ chat' = [chat EXCEPT ![u] = Said(@, "me", me_command(users[u]).reply)]
  /\ UNCHANGED <<pipeline, bot_thread, bot_app, threads, http>>

UnregisterCommand(u) ==
  /\ users' = [users EXCEPT ![u] = unregister_command(@).account]
  /\ chat' = [chat EXCEPT ![u] = Said(@, "unregister", unregister_command(users[u]).reply)]
  /\ UNCHANGED <<pipeline, bot_thread, bot_app, threads, http>>

StopCommand(u) ==
  /\ users' = [users EXCEPT ![u] = stop_command(@).account]
  /\ chat' = [chat EXCEPT ![u] = Said(@, "stop", stop_command(users[u]).reply)]
  /\ UNCHANGED <<pipeline, bot_thread, bot_app, threads, http>>

TextMessage(u) ==
  /\ users' = [users EXCEPT ![u] = text_message(@).account]
  /\ chat' = [chat EXCEPT ![u] = Said(@, "text", text_message(users[u]).reply)]
  /\ UNCHANGED <<pipeline, bot_thread, bot_app, threads, http>>

NextCommands ==
  \E u \in Users :
    \/ StartCommand(u)
    \/ RegisterCommand(u)
    \/ MeCommand(u)
    \/ UnregisterCommand(u)
    \/ StopCommand(u)
    \/ TextMessage(u)

\* no update of the pipeline; the users send commands
InitCommands == Start /\ load = Load(0, FALSE, FALSE, FALSE, DefaultFrames)

SpecCommands == InitCommands /\ [][NextCommands]_vars

\* ------------------------------------------------- the web application
\* os.getenv("ADMIN_USERNAME"), os.getenv("ADMIN_PASSWORD"): main.py:48-49
ADMIN_USERNAME == "admin"
ADMIN_PASSWORD == "secret"

Paths ==
  { <<>>, <<"download", "1", "f">>, <<"download">>, <<"botstart">>,
    <<"botstop">>, <<"logs">> }

Headers ==
  {[scheme |-> "none", wellformed |-> FALSE, username |-> "",
    password |-> ""],
   [scheme |-> "Bearer", wellformed |-> FALSE, username |-> "",
    password |-> ""],
   [scheme |-> "Basic", wellformed |-> FALSE, username |-> "",
    password |-> ""]}
  \cup {[scheme |-> "Basic", wellformed |-> TRUE, username |-> u,
          password |-> p] :
           u \in {"", "admin", "guest"}, p \in {"", "secret", "wrong"}}

\* main.py:73: the root path and the paths that begin with /download/
Exempt(path) == path = <<>> \/ (Len(path) >= 2 /\ path[1] = "download")

\* HTTPBasic (main.py:31, called at main.py:87): the credentials of a Basic
\* header whose parameter decodes, and 401 otherwise
security(h) == h.scheme = "Basic" /\ h.wellformed

authenticate_admin_either(h) ==
  /\ h.username # "" /\ h.password # ""
  /\ (h.username = ADMIN_USERNAME \/ h.password = ADMIN_PASSWORD)

\* main.py:46-67
authenticate_admin(h) ==
  /\ h.username # "" /\ h.password # ""
  /\ h.username = ADMIN_USERNAME /\ h.password = ADMIN_PASSWORD

\* main.py:69-101: does the middleware pass the request on
apply_authentication(path, h) ==
  \/ Exempt(path)
  \/ (h.scheme # "none" /\ security(h) /\ authenticate_admin(h))

\* bot_thread.is_alive(): start_bot_in_thread ends in loop.run_forever()
\* (main.py:44) and nothing stops that loop, so a thread that was started
\* stays alive
IsAlive == bot_thread = "thread" /\ threads > 0

Answered(path, h, status, handled, detail) ==
  [n |-> 1 - http.n, path |-> path, scheme |-> h.scheme,
   wellformed |-> h.wellformed, username |-> h.username,
   password |-> h.password, alive |-> IsAlive, status |-> status,
   handled |-> handled, detail |-> detail]

\* main.py:78-95: the middleware answers 401 itself
Unauthorized ==
  /\ \E path \in Paths, h \in Headers :
       /\ ~apply_authentication(path, h)
       /\ http' = Answered(path, h, 401, FALSE,
                           IF h.scheme = "none" THEN "headerMissing"
                           ELSE IF ~security(h) THEN "notBasic"
                           ELSE "incorrect")
  /\ UNCHANGED <<pipeline, users, chat, bot_thread, bot_app, threads>>

\* main.py:103-106
read_root ==
  /\ \E h \in Headers :
       /\ apply_authentication(<<>>, h)
       /\ http' = Answered(<<>>, h, 200, TRUE, "welcome")
  /\ UNCHANGED <<pipeline, users, chat, bot_thread, bot_app, threads>>

\* main.py:175-183, and the 404 of a path that matches no route
Download ==
  /\ \E path \in Paths \ {<<>>, <<"botstart">>, <<"botstop">>, <<"logs">>},
        h \in Headers :
       /\ apply_authentication(path, h)
       /\ http' = Answered(path, h, download_file(path, files).status,
                           Len(path) = 3, "file")
  /\ UNCHANGED <<pipeline, users, chat, bot_thread, bot_app, threads>>

\* main.py:154-173, the database being connected
get_logs ==
  /\ \E h \in Headers :
       /\ apply_authentication(<<"logs">>, h)
       /\ authenticate_admin(h)
       /\ http' = Answered(<<"logs">>, h, 200, TRUE, "logs")
  /\ UNCHANGED <<pipeline, users, chat, bot_thread, bot_app, threads>>

\* main.py:114
StartsAnyway == TRUE

StartsThread == bot_thread = "none" \/ ~IsAlive

\* main.py:108-125; the handler is a coroutine without an await, so it
\* runs to its end before another request is served
start_bot_endpoint ==
  /\ threads < MaxThreads
  /\ \E h \in Headers :
       /\ apply_authentication(<<"botstart">>, h)
       /\ authenticate_admin(h)
       /\ IF StartsThread
            THEN /\ bot_thread' = "thread"
                 /\ threads' = threads + 1
                 /\ http' = Answered(<<"botstart">>, h, 200, TRUE, "started")
            ELSE /\ UNCHANGED <<bot_thread, threads>>
                 /\ http' = Answered(<<"botstart">>, h, 200, TRUE,
                                     "alreadyRunning")
  /\ UNCHANGED <<pipeline, users, chat, bot_app>>

\* main.py:39-41: run_bot returns in the bot thread and bot_app is set
run_and_get_app ==
  /\ IsAlive /\ bot_app = "none"
  /\ bot_app' = "app"
  /\ UNCHANGED <<pipeline, users, chat, bot_thread, threads, http>>

\* main.py:127-152.  The handler is a coroutine running on the server's
\* event loop; run_until_complete of another loop (main.py:136-137) raises
\* RuntimeError there, since a thread cannot run a loop while another is
\* running in it; except Exception (main.py:147-149) answers 500, and the
\* lines that stop the bot, join the thread and reset the globals are not
\* reached.
stop_bot_endpoint ==
  /\ \E h \in Headers :
       /\ apply_authentication(<<"botstop">>, h)
       /\ authenticate_admin(h)
       /\ http' = IF bot_app # "none" /\ bot_thread # "none" /\ IsAlive
                    THEN Answered(<<"botstop">>, h, 500, TRUE, "errorStopping")
                    ELSE Answered(<<"botstop">>, h, 200, TRUE, "notRunning")
  /\ UNCHANGED <<pipeline, users, chat, bot_thread, bot_app, threads>>

NextWeb ==
  \/ Unauthorized
  \/ read_root
  \/ Download
  \/ get_logs
  \/ start_bot_endpoint
  \/ run_and_get_app
  \/ stop_bot_endpoint

SpecWeb == InitCommands /\ [][NextWeb]_vars

Next ==
  \E t \in Transfers :
    \/ HandleMessage(t)
    \/ FollowRedirect(t)
    \/ CallFails(t)
    \/ Redirected(t)
    \/ OtherStatus(t)
    \/ JsonAnswer(t)
    \/ ReceiveStream(t)
    \/ ReadChunks(t)
    \/ StreamError(t)
    \/ Finalize(t)
    \/ Thumbnail(t)
    \/ Deliver(t)
    \/ HandleResult(t)
    \/ FollowLink(t)
    \/ ThumbnailTaskStart(t)
    \/ ThumbnailTaskFinish(t)

Spec == Init /\ [][Next]_vars

SpecSeq == InitSeq /\ [][Next]_vars

SpecSheet == InitSheet /\ [][Next]_vars

\* The event loop resumes a coroutine when the operation it awaits has ended,
\* and every awaited operation ends or raises: the HTTP client gives up after
\* its total timeout, the bot's requests after theirs (bot.py:569,
\* premium.py:219-221), and the loops of the pipeline run over a finite body
\* and a bounded number of redirects.  So a step that stays possible is taken.
SpecLive == Init /\ [][Next]_vars /\ WF_vars(Next)

\* ================================================================ claims
Stored(t) == files[<<tr[t].user, tr[t].file_hash_str>>]

PipelineErrorTags == {"callError", "statusError", "apiError",
                      "invalidResponse", "downloadError", "timeout",
                      "noBaseUrl"}

FailureTags == PipelineErrorTags \cup {"redirected", "invalidUrl", "failed"}

Tagged(t, tags) == {i \in DOMAIN out[t] : out[t][i].tag \in tags}

\* C1: every finalized file is named by the SHA-256 of the bytes it holds,
\* and every StoredFile record's storage path holds a file whose SHA-256 is
\* the record's hash, in every state of every sequence of transfers.
C1_StoredHashIsSha256OfFile ==
  /\ \A path \in DOMAIN files : path[2] = Sha256(files[path])
  /\ \A i \in DOMAIN db :
       /\ db[i].file_path \in DOMAIN files
       /\ db[i].file_hash = Sha256(files[db[i].file_path])

\* two transfers have been finalized with different contents
C1_Witness ==
  /\ Len(db) = 2
  /\ db[1].file_hash # db[2].file_hash
  /\ Size(files[db[1].file_path]) > 0
  /\ Size(files[db[2].file_path]) > 0

\* C2: no two StoredFile records share a hash (finalizing identical content
\* a second time adds no record).
C2_OneRecordPerHash ==
  \A i, j \in DOMAIN db : db[i].file_hash = db[j].file_hash => i = j

\* C3: the delivery mode is inline exactly when the finalized file has fewer
\* than 52428800 bytes, whatever Content-Length was declared.
C3_ModeByActualSize ==
  \A t \in Transfers :
    tr[t].mode # "none" =>
      (tr[t].mode = "inline" <=> Size(Stored(t)) < Threshold)

\* C4: successive "Downloading: N%" edits of a transfer are at least five
\* points apart (at most one per 5-point increment), never decrease and
\* never exceed 100.
C4_OneEditPerFivePoints ==
  \A t \in Transfers :
    /\ mon[t].cur <= 100
    /\ mon[t].prev >= 0 => mon[t].cur >= mon[t].prev + 5

\* C5: the "Download complete!" edit is issued exactly once when the
\* computed percent is 100 (and not otherwise), and no "Downloading: N%"
\* edit is issued after it.
C5_CompleteOnceAtHundred ==
  \A t \in Transfers :
    /\ mon[t].complete <= 1
    /\ mon[t].complete = 1 <=>
         Progress(tr[t].downloaded_size, tr[t].total_size) = 100
    /\ ~mon[t].late

\* a transfer that issued percent edits and then the complete edit, and
\* went on to finalization
C5_Witness ==
  \E t \in Transfers :
    /\ mon[t].complete = 1
    /\ mon[t].issued >= 2
    /\ pc[t] = "delivering"

\* C6: no transfer fails because an edit of the status message was
\* rejected.
C6_RejectedEditNeverFails ==
  \A t \in Transfers : tr[t].outcome # "editFailed"

\* C7: when the thumbnail subprocess failed for a finalized video, the
\* record's thumbnail_path stays absent.
C7_NoThumbnailPathWithoutThumbnail ==
  \A t \in Transfers :
    tr[t].thumb = "ffmpegError" =>
      \A i \in DOMAIN db :
        db[i].file_hash = tr[t].file_hash_str => db[i].thumbnail_path = <<>>

\* C8: when the broker answered 302 with a Location, the transfer ends with
\* a message that contains the Location, and no file is written and no
\* record is created.
C8_RedirectIsTerminal ==
  \A t \in Transfers :
    (pc[t] \in {"returned", "done"} /\ tr[t].location # "") =>
      /\ \E i \in DOMAIN out[t] :
           out[t][i].tag = "redirected" /\ out[t][i].s = tr[t].location
      /\ tr[t].outcome = "redirected"
      /\ temp = <<>> /\ files = <<>> /\ db = <<>>

\* C9: a transfer that ended in a failure branch has sent exactly one
\* message about the failure, replies and status edits counted together.
C9_ExactlyOneFailureMessage ==
  \A t \in Transfers :
    (pc[t] = "done" /\ tr[t].outcome # "completed") =>
      Cardinality(Tagged(t, FailureTags)) = 1

C11_ErrorTable ==
  \A t \in Transfers : \A i \in DOMAIN out[t] :
    out[t][i].tag = "apiError" =>
      LET N == out[t][i].n
          text == out[t][i].s
      IN  /\ N = 400 => text = <<"Invalid parameters">>
          /\ N = 401 => text = <<"Invalid API authentication">>
          /\ N = 402 => text = <<"Filehost is not supported">>
          /\ N = 403 => text = <<"Not enough traffic">>
          /\ N = 404 => text = <<"File not found">>
          /\ N = 429 => text = <<"Too many open connections">>
          /\ N = 500 => text =
               <<"Currently no available premium account for this filehost">>
          /\ N \notin {400, 401, 402, 403, 404, 429, 500} =>
               text = <<"Unknown error (code ", N, ")">>

\* a finished transfer whose JSON error body carried the unlisted code 418
C11_Witness ==
  /\ \E i \in DOMAIN out[1] : out[1][i].tag = "apiError" /\ out[1][i].n = 418
  /\ pc[1] = "done"

\* C12: a transfer whose inline send timed out ends as failed: the send was
\* attempted once, the requester is sent no link and no file, the pipeline
\* returns no result and the caller reports the failure.
C12_TimeoutHasNoFallback ==
  \A t \in Transfers :
    tr[t].outcome = "timedOut" =>
      /\ pc[t] \in {"returned", "done"}
      /\ tr[t].sends = 1
      /\ ~tr[t].result.ok
      /\ Tagged(t, {"available", "file", "downloaded"}) = {}
      /\ pc[t] = "done" => out[t][Len(out[t])].tag = "failed"

\* a finalized file below the threshold whose send timed out, after the
\* caller has handled the result
C12_Witness ==
  \E t \in Transfers :
    /\ tr[t].outcome = "timedOut"
    /\ pc[t] = "done"
    /\ Size(Stored(t)) < Threshold
    /\ Tagged(t, {"timeout"}) # {}

\* C13: for a finalized file of 52428800 bytes or more, the transfer fails
\* and sends no link when no base URL is configured, and otherwise returns
\* exactly <base>/download/<hash>, <hash> being the hash of the file.
C13_HostedLinkAtOrAboveThreshold ==
  \A t \in Transfers :
    (pc[t] \in {"returned", "done"} /\ tr[t].mode # "none"
       /\ Size(Stored(t)) >= Threshold) =>
      IF env.file_host_base_url
        THEN /\ tr[t].result.ok
             /\ tr[t].result.file_url.kind = "hosted"
             /\ tr[t].result.file_url.path = <<"download", Sha256(Stored(t))>>
        ELSE /\ ~tr[t].result.ok
             /\ Tagged(t, {"available"}) = {}

\* the same for the transfers that the pipeline takes to its link branch
\* (premium.py:247-264): this holds
LinkBranchReturnsHostedUrl ==
  \A t \in Transfers :
    (pc[t] \in {"returned", "done"} /\ tr[t].mode = "link") =>
      IF env.file_host_base_url
        THEN /\ tr[t].result.ok
             /\ tr[t].result.file_url.kind = "hosted"
             /\ tr[t].result.file_url.path = <<"download", Sha256(Stored(t))>>
        ELSE /\ ~tr[t].result.ok
             /\ Tagged(t, {"available"}) = {}

\* C14: a text that does not match the pattern is rejected with a
\* notification, without a broker request, a file or a record, and the
\* broker is requested only for a text that matches.  The texts of the
\* model that match the pattern are the three listed here.
C14_OnlyValidLinksAreRequested ==
  \A t \in Transfers :
    pc[t] # "idle" =>
      IF tr[t].text \in
           { <<"https://", "rapidgator", ".", "net", "/file/abc">>,
             <<"http://", "www.", "rapidgator", ".", "net", "/file/abc">>,
             <<"https://", "rapidgator", ".", "net", ".example.org/x">> }
        THEN tr[t].requests = 1 /\ tr[t].outcome # "rejected"
        ELSE /\ tr[t].requests = 0
             /\ pc[t] = "done" /\ tr[t].outcome = "rejected"
             /\ out[t] = Middleware(tr[t].account) \o <<Reply("invalidUrl")>>
             /\ temp = <<>> /\ files = <<>> /\ db = <<>>

\* a text that holds the link after other words has been rejected
C14_Witness ==
  /\ pc[1] = "done"
  /\ tr[1].text = <<"see ", "https://", "rapidgator", ".", "net", "/file/abc">>
  /\ tr[1].outcome = "rejected"

\* C15: within one transfer session.get is called at most once and
\* send_document at most once, and a transfer that has entered a failure
\* outcome only returns to its caller and ends: it takes no further
\* pipeline step, requests nothing and sends nothing.
FailureOutcomes ==
  {"rejected", "transport", "redirected", "apiError", "storageFailed",
   "nameFailed", "streamFailed", "editFailed", "sendFailed", "timedOut", "noBaseUrl"}

C15_NoRetries ==
  [][\A t \in Transfers :
       /\ tr'[t].requests <= 1
       /\ tr'[t].sends <= 1
       /\ tr[t].outcome \in FailureOutcomes =>
            /\ pc'[t] \in {"returned", "done"}
            /\ tr'[t].requests <= tr[t].requests
            /\ tr'[t].sends <= tr[t].sends
            /\ temp' = temp /\ files' = files /\ db' = db]_vars

\* a transfer that failed in its inline send, after one request and one
\* send, has ended
C15_Witness ==
  \E t \in Transfers :
    /\ pc[t] = "done"
    /\ tr[t].outcome = "sendFailed"
    /\ tr[t].requests = 1 /\ tr[t].sends = 1

\* C16: the final reference of a finalized video is delivered without the
\* orchestrator having waited for a run of the thumbnail generator; the
\* generator runs only in the detached task.
C16_DeliveryDoesNotWaitForThumbnail ==
  \A t \in Transfers :
    (tr[t].mode # "none" /\ IsVideo(Stored(t))) => tr[t].thumb = "none"

\* C17: a completed transfer of a file that is not a video launches no
\* thumbnail task, and no record of its hash gets a thumbnail_path.
C17_ThumbnailOnlyForVideo ==
  \A t \in Transfers :
    (tr[t].outcome = "completed" /\ ~IsVideo(Stored(t))) =>
      /\ tasks[t].at = "none"
      /\ \A i \in DOMAIN db :
           db[i].file_hash = tr[t].file_hash_str =>
             db[i].thumbnail_path = <<>>

\* C18: a failure on the thumbnail side-path is only logged: it does not
\* fail the transfer, and the requester is sent no message about it.
C18_ThumbnailFailureIsIsolated ==
  \A t \in Transfers :
    /\ tr[t].thumb \in {"ffmpegError", "raises", "mkdirFails"} =>
         tr[t].outcome \notin {"storageFailed"}
    /\ tasks[t].sent # "error"

\* C19: once a record's thumbnail_path holds a path, no step changes it.
C19_ThumbnailPathFirstWriterWins ==
  [][\A i \in DOMAIN db :
       db[i].thumbnail_path # <<>> =>
         db'[i].thumbnail_path = db[i].thumbnail_path]_vars

C21_FinalizedIsInHistory ==
  \A t \in Transfers :
    (pc[t] = "done" /\ tr[t].file_hash_str # NoHash) =>
      tr[t].file_hash_str \in history[tr[t].user]

\* C22: a hash-named file and a record exist for a transfer only when its
\* stream was read to the end and every chunk written; a transfer whose
\* read or write failed mid-stream leaves no hash-named file, no record and
\* no delivery result.
C22_NoPartialFinalize ==
  \A t \in Transfers :
    /\ tr[t].file_hash_str # NoHash =>
         /\ tr[t].body = <<>>
         /\ Size(Stored(t)) = tr[t].downloaded_size
         /\ tr[t].total_size > 0 => Size(Stored(t)) = tr[t].total_size
    /\ tr[t].outcome = "streamFailed" =>
         /\ tr[t].file_hash_str = NoHash
         /\ ~tr[t].result.ok
         /\ files = <<>> /\ db = <<>>
         /\ Tagged(t, {"file", "available", "downloaded"}) = {}

\* a transfer that failed after part of its body was written has ended
C22_Witness ==
  \E t \in Transfers :
    /\ pc[t] = "done"
    /\ tr[t].outcome = "streamFailed"
    /\ tr[t].downloaded_size > 0
    /\ tr[t].body # <<>>
    /\ Size(temp[tr[t].user]) = tr[t].downloaded_size

\* C23: when the requester of a transfer that returned the hosted URL
\* <base>/download/<hash> requests that URL, the endpoint answers with the
\* finalized file stored at <download_root>/<requester_id>/<hash>.
C23_HostedUrlResolves ==
  \A t \in Transfers :
    (tr[t].result.file_url.kind = "hosted"
       /\ tr[t].fetched.path = tr[t].result.file_url.path) =>
      /\ tr[t].fetched.status = 200
      /\ tr[t].fetched.body = Stored(t)

\* C24: a transfer without a content length (total 0) whose stream has
\* been read, with at least one chunk of bytes, has issued a status update
\* from the chunk loop.
C24_UpdatesWithoutContentLength ==
  \A t \in Transfers :
    (tr[t].file_hash_str # NoHash /\ tr[t].total_size = 0
       /\ tr[t].downloaded_size > 0) =>
      mon[t].issued + mon[t].complete > 0

\* C25: no step removes a record or changes the hash, the storage path or
\* the original filename of a record; a step changes of a record at most
\* its thumbnail_path.
C25_RecordIsImmutable ==
  [][/\ Len(db') >= Len(db)
     /\ \A i \in DOMAIN db :
          /\ db'[i].file_hash = db[i].file_hash
          /\ db'[i].file_path = db[i].file_path
          /\ db'[i].original_filename = db[i].original_filename]_vars

\* a record whose thumbnail_path was set, followed by a later record
C25_Witness ==
  /\ Len(db) = 2
  /\ db[1].thumbnail_path # <<>>
  /\ db[1].file_path \in DOMAIN files

\* C26: every transfer that was taken up reaches the end of its handling,
\* with a terminal outcome, and stays there: none remains forever in
\* requesting, streaming, finalizing or delivering.
TerminalOutcomes == FailureOutcomes \cup {"completed"}

C26_EveryTransferEnds ==
  /\ \A t \in Transfers :
       (pc[t] # "idle") ~> (pc[t] = "done" /\ tr[t].outcome \in TerminalOutcomes)
  /\ [][\A t \in Transfers :
          pc[t] = "done" =>
            /\ pc'[t] = "done"
            /\ tr'[t].outcome = tr[t].outcome]_vars

\* a transfer of a 50 MiB stream has completed and ended
C26_Witness ==
  \E t \in Transfers :
    /\ pc[t] = "done"
    /\ tr[t].outcome = "completed"
    /\ tr[t].downloaded_size = Threshold
    /\ tr[t].mode = "link"

\* C27: the step that takes a zero-length chunk from the stream leaves the
\* temporary file, the hash state, the byte count and the last reported
\* percent as they were, and issues no status edit.
C27_ZeroLengthChunkIsSkipped ==
  [][\A t \in Transfers :
       (/\ pc[t] = "streaming" /\ tr[t].body # <<>>
        /\ Head(tr[t].body).len = 0
        /\ tr'[t].body = Tail(tr[t].body)) =>
         /\ temp' = temp
         /\ tr'[t].file_hash = tr[t].file_hash
         /\ tr'[t].downloaded_size = tr[t].downloaded_size
         /\ tr'[t].last_progress_update = tr[t].last_progress_update
         /\ mon'[t].issued = mon[t].issued
         /\ mon'[t].complete = mon[t].complete
         /\ out' = out
         /\ pc'[t] = "streaming"]_vars

\* a zero-length chunk was skipped after the chunk that completed the body
C27_Witness ==
  \E t \in Transfers :
    /\ mon[t].skipped = 1
    /\ mon[t].complete = 1
    /\ tr[t].downloaded_size = 1
    /\ tr[t].body = <<>>
    /\ pc[t] = "streaming"

\* C28: deriving the original filename never fails a transfer: no transfer
\* ends in the failure raised while the name is derived, and a transfer
\* whose response was a stream leaves the request either into streaming or
\* by a failure to create the directory or the temporary file.
C28_FilenameNeverFailsATransfer ==
  \A t \in Transfers : tr[t].outcome # "nameFailed"

\* the names the derivation stores: re-decoded, kept as it is, from the link
NamesStored ==
  /\ \A i \in 1..Len(db) :
       db[i].original_filename \in {<<99, 233>>, <<26085>>, <<97, 98, 99>>, <<120>>}

\* C29: for every frame count N >= 1 the grid of a contact sheet that was
\* made follows the table: one row of N columns up to 4, 3 columns from 5 to
\* 9, 4 columns from 10, the rows being the least number that holds N
\* frames: columns * rows >= N and columns * (rows - 1) < N.
C29_GridFollowsTheTable ==
  \A t \in Transfers :
    tr[t].tile # NoTile =>
      LET N == load.num_frames
          cols == tr[t].tile[1]
          rows == tr[t].tile[2]
      IN  /\ N <= 4 => rows = 1
          /\ (5 <= N /\ N <= 9) => cols = 3
          /\ N >= 10 => cols = 4
          /\ cols * rows >= N
          /\ cols * (rows - 1) < N

\* a sheet of 10 frames was laid out in 4 columns and 3 rows
C29_Witness ==
  \E t \in Transfers :
    /\ load.num_frames = 10
    /\ tr[t].thumb = "ok"
    /\ tr[t].tile = <<4, 3>>

\* C30: a link sent from an account that is not registered (no record, or
\* soft-deleted) or has not started the bot is never processed: no broker
\* request is made and no file is stored for that message.
C30_OnlyMembersAreServed ==
  \A t \in Transfers :
    ~(check_user_started(tr[t].account) /\ check_registration(tr[t].account))
      => /\ tr[t].requests = 0
         /\ tr[t].file_hash_str = NoHash

\* C35: no message sent to a requester, in any outcome of the pipeline,
\* holds a configured secret (the bot token, the broker's API key or
\* account id).
C35_NoSecretInMessages ==
  \A t \in Transfers :
    \A i \in 1..Len(out[t]) : UrlIn(out[t][i]).secrets \cap Secrets = {}

\* C31: after /start followed by /register the user is registered:
\* check_registration accepts the user's next text and /me answers with
\* the user's details.
C31_StartThenRegisterRegisters ==
  \A u \in Users :
    (chat[u].before = "start" /\ chat[u].last = "register") =>
      /\ check_registration(users[u])
      /\ me_command(users[u]).reply = "details"

\* C32: a /botstop that came while the bot thread was alive has returned
\* with the thread terminated and bot_app and bot_thread reset.
C32_StopTerminatesTheBot ==
  (http.path = <<"botstop">> /\ http.handled /\ http.alive) =>
    /\ http.status = 200
    /\ threads = 0
    /\ bot_thread = "none"
    /\ bot_app = "none"

\* C33: at most one bot thread is alive, and /botstart starts a thread
\* exactly when none was alive and otherwise answers that the bot is
\* already running.
C33_AtMostOneBotThread ==
  /\ threads <= 1
  /\ (http.path = <<"botstart">> /\ http.handled) =>
       /\ ~http.alive => (http.detail = "started" /\ threads = 1)
       /\ http.alive => http.detail = "alreadyRunning"

\* a second /botstart was answered while the thread of the first was alive
C33_Witness ==
  /\ http.path = <<"botstart">>
  /\ http.alive
  /\ http.detail = "alreadyRunning"
  /\ threads = 1

\* C34: a request to a path other than "/" and those under "/download/"
\* reaches a route handler only with Basic credentials equal to the admin
\* username and password; any other is answered 401 and changes neither
\* the bot thread nor the bot application.
C34_OnlyAdminReachesHandlers ==
  [][(http'.n # http.n
      /\ http'.path # <<>>
      /\ ~(Len(http'.path) >= 2 /\ http'.path[1] = "download")) =>
       IF /\ http'.scheme = "Basic" /\ http'.wellformed
          /\ http'.username = "admin" /\ http'.password = "secret"
         THEN http'.status # 401
         ELSE /\ http'.status = 401
              /\ ~http'.handled
              /\ UNCHANGED <<bot_thread, bot_app, threads, users>>]_vars

\* /botstart with the admin's name and a wrong password was refused
C34_Witness ==
  /\ http.path = <<"botstart">>
  /\ http.username = "admin" /\ http.password = "wrong"
  /\ http.status = 401
  /\ threads = 0

====
